---- MODULE Spec2Model ----
(***************************************************************************)
(* Engagement dispatch core of gerberaa/xfarmm:                            *)
(*   TaskManager / ProxyManager / AdvancedTwitterManager (advanced_menu.py)*)
(*   TwitterInteractionAPI / TwitterAutomation (twitter_automation.py)     *)
(*   TwitterActionsAPI (twitter_actions.py)                                *)
(* The console menu is one blocking control flow: a menu operation runs    *)
(* to its end (asyncio.run) before the next one is read.  Inside a job the *)
(* per-account coroutines of one phase interleave at their await points.   *)
(***************************************************************************)
EXTENDS Integers, Sequences, FiniteSets, TLC

VARIABLES
    tasks,            \* TaskManager.tasks
    pool,             \* api.pool accounts: sequence of [username, active]
    proxies,          \* ProxyManager.proxies
    account_proxies,  \* TwitterInteractionAPI.account_proxies
    run,              \* locals of execute_task / execute_all_tasks
    job,              \* locals of _execute_single_task / process_tweet_url
    slots,            \* per phase: the coroutines handed to asyncio.gather
    sem,              \* per phase: value of its asyncio.Semaphore
    acted,            \* per username: primitive invocations in the current job
    plan,             \* RealisticEngagement: its pool size, the last call and result
    my_proxies,       \* my_proxies.txt: the proxy lines of the file
    bot               \* TwitterTelegramBot: config, processed_tweets, its handlers

vars == <<tasks, pool, proxies, account_proxies, run, job, slots, sem, acted, plan,
          my_proxies, bot>>

----------------------------------------------------------------------------
(* Bounds of the model *)

MaxTasks == 2         \* length of the task list
MaxAccounts == 3      \* pool size of the job-level specifications
QueueAccounts == 2    \* pool size of the queue-level specification
CapAccounts == 6      \* pool size of the concurrency-cap specification
MaxCount == 2         \* largest requested like/retweet/view count
MaxSeed == 6          \* random draws that drive random.shuffle
MaxProxies == 2       \* distinct proxy URIs
MaxPlanPool == 52     \* largest pool size handed to RealisticEngagement
ShortAccounts == 2    \* pool size of the shortfall specification
ShortCount == 3       \* largest requested count of the shortfall specification
LiveTasks == 2        \* tasks in the list of the termination specification
ReadAccounts == 4     \* accounts of the pool whose flags change during a job
MaxProxyList == 2     \* proxy lines of my_proxies.txt
MaxHandlers == 2      \* bot handlers that may be in progress together
MaxEngaged == 2       \* engagement calls per tweet id
MaxTelegramId == 2    \* user ids and chat ids are 1..MaxTelegramId

(* Program constants *)

MaxConcurrent == 5    \* asyncio.Semaphore(5)
NoProxy == 0          \* account_proxies.get(username, None)
NoAccount == 0        \* no session picked

None == [none |-> TRUE]

PhaseSet == {"likes", "retweets", "views"}

Range(s) == {s[i] : i \in 1..Len(s)}
Min(a, b) == IF a < b THEN a ELSE b

----------------------------------------------------------------------------
(* TaskManager *)

\* a variant that does not filter on the status
get_pending_tasks_unfiltered(ts) == [i \in 1..Len(ts) |-> i]

\* a variant that serves the high-priority tasks first
get_pending_tasks_by_priority(ts) ==
    LET idx == [i \in 1..Len(ts) |-> i] IN
    SelectSeq(idx, LAMBDA i : ts[i].status = "pending" /\ ts[i].priority = "high")
    \o SelectSeq(idx, LAMBDA i : ts[i].status = "pending" /\ ts[i].priority # "high")

\* the pending tasks, in list order; a task is referred to by its place in the list
get_pending_tasks(ts) ==
    SelectSeq([i \in 1..Len(ts) |-> i], LAMBDA i : ts[i].status = "pending")

\* index of the first task with this id, 0 when there is none
get_task_by_id(ts, task_id) ==
    IF \E i \in 1..Len(ts) : ts[i].id = task_id
    THEN CHOOSE i \in 1..Len(ts) :
            /\ ts[i].id = task_id
            /\ \A j \in 1..(i - 1) : ts[j].id # task_id
    ELSE 0

\* a variant that stamps processed_at on every update that ends a task
update_task_status_stamp_terminal(ts, task_id, status, result) ==
    LET k == get_task_by_id(ts, task_id) IN
    IF k = 0 THEN ts
    ELSE [ts EXCEPT ![k] =
            [@ EXCEPT !.status = status,
                      !.result = result,
                      !.processed_at =
                          IF status \in {"completed", "failed"} THEN "now" ELSE @]]

\* a variant that saves nothing for a failed task
update_task_status_completed_only(ts, task_id, status, result) ==
    LET k == get_task_by_id(ts, task_id) IN
    IF k = 0 \/ status = "failed" THEN ts
    ELSE [ts EXCEPT ![k] =
            [@ EXCEPT !.status = status,
                      !.result = result,
                      !.processed_at =
                          IF status = "completed" THEN "now" ELSE @]]

update_task_status(ts, task_id, status, result) ==
    LET k == get_task_by_id(ts, task_id) IN
    IF k = 0 THEN ts
    ELSE [ts EXCEPT ![k] =
            [@ EXCEPT !.status = status,
                      !.result = result,
                      !.processed_at =
                          IF status = "completed" THEN "now" ELSE @]]

\* a variant that numbers a task by the count of pending tasks
new_task_pending_id(ts, url, likes, retweets, views, priority) ==
    [id |-> Len(get_pending_tasks(ts)) + 1, url |-> url,
     likes |-> likes, retweets |-> retweets, views |-> views,
     priority |-> priority, status |-> "pending",
     processed_at |-> "None", result |-> None]

new_task(ts, url, likes, retweets, views, priority) ==
    [id |-> Len(ts) + 1, url |-> url,
     likes |-> likes, retweets |-> retweets, views |-> views,
     priority |-> priority, status |-> "pending",
     processed_at |-> "None", result |-> None]

----------------------------------------------------------------------------
(* TwitterInteractionAPI / TwitterAutomation helpers *)

extract_tweet_id(url) ==
    CASE url = "x.com/u/status/1" -> "1"
      [] url = "x.com/u/status/2" -> "2"
      [] url = "1" -> "1"
      [] OTHER -> "None"

get_active_accounts(p) ==
    LET act == SelectSeq(p, LAMBDA acc : acc.active) IN
    [i \in 1..Len(act) |-> act[i].username]

get_account_proxy(ap, username) ==
    IF username \in DOMAIN ap THEN ap[username] ELSE NoProxy

\* TwitterActionsAPI(pool, proxy=account_proxy): the proxy the instance sends through
create_actions_api_for_account(ap, username) == get_account_proxy(ap, username)

RemoveAt(s, k) == SubSeq(s, 1, k - 1) \o SubSeq(s, k + 1, Len(s))

\* random.shuffle: the permutation the draws encoded in seed produce
RECURSIVE Shuffle(_, _)
Shuffle(s, seed) ==
    IF Len(s) <= 1 THEN s
    ELSE LET k == (seed % Len(s)) + 1 IN
         <<s[k]>> \o Shuffle(RemoveAt(s, k), seed \div Len(s))

Take(s, n) == SubSeq(s, 1, Min(n, Len(s)))

\* a variant that cycles through the accounts until the target is reached
select_likes_accounts_cycled(shuffled, likes_count) ==
    [i \in 1..likes_count |-> shuffled[((i - 1) % Len(shuffled)) + 1]]

select_likes_accounts(shuffled, likes_count) ==
    IF likes_count > 0 THEN Take(shuffled, likes_count) ELSE <<>>

\* a variant that carves the retweet accounts from the whole shuffled list
select_retweet_accounts_reuse(shuffled, likes_accounts, likes_count, retweets_count) ==
    IF retweets_count > 0 THEN Take(shuffled, retweets_count) ELSE <<>>

select_retweet_accounts(shuffled, likes_accounts, likes_count, retweets_count) ==
    IF retweets_count > 0
    THEN LET used_accounts == IF likes_count # 0 THEN likes_accounts ELSE <<>>
             remaining_accounts ==
                 SelectSeq(shuffled, LAMBDA acc : acc \notin Range(used_accounts))
         IN Take(remaining_accounts, retweets_count)
    ELSE <<>>

\* a variant that fills a short remainder with accounts already used
select_view_accounts_refill(shuffled, likes_accounts, retweet_accounts, views_count) ==
    IF views_count > 0
    THEN LET used_accounts_set == Range(likes_accounts) \cup Range(retweet_accounts)
             rest == SelectSeq(shuffled, LAMBDA acc : acc \notin used_accounts_set)
         IN Take(rest \o likes_accounts \o retweet_accounts, views_count)
    ELSE <<>>

select_view_accounts(shuffled, likes_accounts, retweet_accounts, views_count) ==
    IF views_count > 0
    THEN LET used_accounts_set == Range(likes_accounts) \cup Range(retweet_accounts)
             rest == SelectSeq(shuffled, LAMBDA acc : acc \notin used_accounts_set)
         IN SubSeq(rest, 1, Min(Min(views_count, Len(shuffled)), Len(rest)))
    ELSE <<>>

new_results(tweet_id, url, initial_stats) ==
    [tweet_id |-> tweet_id, tweet_url |-> url, initial_stats |-> initial_stats,
     actions |-> [likes |-> 0, retweets |-> 0, views |-> 0],
     errors |-> <<>>]

\* a variant that reports zeroed counts next to the error
ErrorResult_with_counts(msg) ==
    [error |-> msg, actions |-> [likes |-> 0, retweets |-> 0, views |-> 0]]

\* return {"error": ...}
ErrorResult(msg) == [error |-> msg]

\* a variant without the except branch: a raised exception is recorded nowhere
record_outcome_uncaught(results, ph, account, outcome) ==
    CASE outcome = "ok" ->
            [results EXCEPT !.actions[ph] = @ + 1]
      [] outcome = "fail" ->
            [results EXCEPT !.errors =
                Append(@, [phase |-> ph, kind |-> "failed", account |-> account])]
      [] OTHER -> results

\* the body of process_like / process_retweet / process_view after the primitive
\* has answered: success, a false result, or an exception
record_outcome(results, ph, account, outcome) ==
    CASE outcome = "ok" ->
            [results EXCEPT !.actions[ph] = @ + 1]
      [] outcome = "fail" ->
            [results EXCEPT !.errors =
                Append(@, [phase |-> ph, kind |-> "failed", account |-> account])]
      [] OTHER ->
            [results EXCEPT !.errors =
                Append(@, [phase |-> ph, kind |-> "error", account |-> account])]

\* a variant that fails the job when any per-account error was recorded
task_outcome_escalating(result) ==
    IF "error" \in DOMAIN result THEN "failed"
    ELSE IF Len(result.errors) > 0 THEN "failed" ELSE "completed"

\* _execute_single_task: the status recorded for a returned result
task_outcome(result) ==
    IF "error" \in DOMAIN result THEN "failed" ELSE "completed"

MakeSlots(accts) ==
    [i \in 1..Len(accts) |->
        [acct |-> accts[i], pc |-> "wait", proxy |-> NoProxy,
         cred |-> NoAccount, calls |-> 0, sleeps |-> 0, jitter |-> <<0, 0>>,
         outcome |-> "none"]]

InFlight(ph) == {i \in 1..Len(slots[ph]) : slots[ph][i].pc \in {"acquired", "call"}}
AllDone(ph) == \A i \in 1..Len(slots[ph]) : slots[ph][i].pc = "done"

IdleJob ==
    [pc |-> "idle", task |-> 0, total_accounts |-> 0, likes_count |-> 0,
     retweets_count |-> 0, views_count |-> 0, shuffled |-> <<>>, likes_accounts |-> <<>>,
     retweet_accounts |-> <<>>, view_accounts |-> <<>>,
     delays |-> <<>>, results |-> None, result |-> None]
IdleRun ==
    [kind |-> "none", queue |-> <<>>, i |-> 0, success_count |-> 0,
     failed_count |-> 0, cooldowns |-> 0, state |-> "menu"]
NoSlots == [ph \in PhaseSet |-> <<>>]
FreshSem == [ph \in PhaseSet |-> MaxConcurrent]
NoActs == [u \in {pool[i].username : i \in 1..Len(pool)} |-> 0]
NoPlan == [total_accounts |-> 0, engagement_type |-> "none", profile |-> "none",
           raw |-> [views |-> 0, likes |-> 0, retweets |-> 0],
           result |-> [views |-> 0, likes |-> 0, retweets |-> 0]]
\* no bot object has been constructed
NoBot == [config |-> None, processed_tweets |-> {}, handlers |-> <<>>,
          engaged |-> <<>>, last |-> None]

\* auto_engage_tweet: the counts random.randint may draw for a pool of n accounts
AutoCounts(n) ==
    {<<l, r, v>> : l \in ((n * 2) \div 10)..((n * 4) \div 10),
                   r \in ((n * 5) \div 100)..((n * 15) \div 100),
                   v \in ((n * 6) \div 10)..((n * 8) \div 10)}

----------------------------------------------------------------------------
(* Menu operations *)

\* TaskManager.add_task
add_task(url, likes, retweets, views, priority) ==
    /\ run.state = "menu"
    /\ Len(tasks) < MaxTasks
    /\ tasks' = Append(tasks, new_task(tasks, url, likes, retweets, views, priority))
    /\ UNCHANGED <<pool, proxies, account_proxies, run, job, slots, sem, acted, plan, my_proxies, bot>>

\* ProxyManager.assign_proxy
assign_proxy(username, proxy) ==
    /\ run.state = "menu"
    /\ proxies' = [u \in DOMAIN proxies \cup {username} |->
                      IF u = username THEN proxy ELSE proxies[u]]
    /\ UNCHANGED <<tasks, pool, account_proxies, run, job, slots, sem, acted, plan, my_proxies, bot>>

\* ProxyManager.remove_proxy
remove_proxy(username) ==
    /\ run.state = "menu"
    /\ proxies' = IF username \in DOMAIN proxies
                  THEN [u \in DOMAIN proxies \ {username} |-> proxies[u]]
                  ELSE proxies
    /\ UNCHANGED <<tasks, pool, account_proxies, run, job, slots, sem, acted, plan, my_proxies, bot>>

\* ProxyManager.get_proxy: self.proxies.get(username, None)
get_proxy(px, username) ==
    IF username \in DOMAIN px THEN px[username] ELSE NoProxy

\* a variant that takes every account, with or without a proxy
accounts_without_proxy_everyone(accounts_info, px) ==
    [i \in 1..Len(accounts_info) |-> accounts_info[i].username]

\* the accounts for which `not get_proxy(username)`, in the order of accounts_info
accounts_without_proxy(accounts_info, px) ==
    LET without == SelectSeq(accounts_info,
                             LAMBDA acc : get_proxy(px, acc.username) = NoProxy)
    IN [i \in 1..Len(without) |-> without[i].username]

\* the loop `for i, username in enumerate(accounts_without_proxy):
\*   if i < len(proxies_list): assign_proxy(username, proxies_list[i])`
auto_distribute_proxies(accounts_info, px, proxies_list) ==
    LET without == accounts_without_proxy(accounts_info, px)
        assigned == 1..Min(Len(without), Len(proxies_list))
    IN [u \in DOMAIN px \cup {without[i] : i \in assigned} |->
           IF \E i \in assigned : without[i] = u
           THEN proxies_list[CHOOSE i \in assigned : without[i] = u]
           ELSE px[u]]

\* AdvancedTwitterManager.auto_assign_proxies, with the answer to its question
auto_assign_proxies(confirm) ==
    /\ run.state = "menu"
    /\ proxies' =
          IF \/ Len(my_proxies) = 0
             \/ Len(pool) = 0
             \/ Len(accounts_without_proxy(pool, proxies)) = 0
             \/ confirm # "y"
          THEN proxies
          ELSE auto_distribute_proxies(pool, proxies, my_proxies)
    /\ UNCHANGED <<tasks, pool, account_proxies, run, job, slots, sem, acted, plan,
                   my_proxies, bot>>

\* _execute_single_task, up to the first await: the task is marked processing
begin_single_task(k) ==
    /\ tasks' = update_task_status(tasks, tasks[k].id, "processing", None)
    /\ job' = [IdleJob EXCEPT !.pc = "start", !.task = k]
    /\ slots' = NoSlots
    /\ sem' = FreshSem
    /\ acted' = NoActs

\* AdvancedTwitterManager.execute_task: the user picks one of the pending tasks
execute_task(choice) ==
    /\ run.state = "menu"
    /\ LET pending_tasks == get_pending_tasks(tasks) IN
        /\ choice \in 1..Len(pending_tasks)
        /\ run' = [kind |-> "single", queue |-> <<pending_tasks[choice]>>, i |-> 1,
                   success_count |-> 0, failed_count |-> 0, cooldowns |-> 0,
                   state |-> "running"]
        /\ begin_single_task(pending_tasks[choice])
    /\ UNCHANGED <<pool, proxies, account_proxies, plan, my_proxies, bot>>

\* AdvancedTwitterManager.execute_all_tasks, confirmed, up to the first task's start
execute_all_tasks ==
    /\ run.state = "menu"
    /\ LET pending_tasks == get_pending_tasks(tasks) IN
        /\ Len(pending_tasks) > 0
        /\ run' = [kind |-> "all", queue |-> pending_tasks, i |-> 1,
                   success_count |-> 0, failed_count |-> 0, cooldowns |-> 0,
                   state |-> "running"]
        /\ begin_single_task(pending_tasks[1])
    /\ UNCHANGED <<pool, proxies, account_proxies, plan, my_proxies, bot>>

----------------------------------------------------------------------------
(* One job: auto_engage_tweet / process_tweet_url *)

\* process_tweet_url from its entry to the start of the likes phase
process_tweet_url(url, likes_count, retweets_count, views_count, seed, stats) ==
    LET tweet_id == extract_tweet_id(url)
        active_accounts == get_active_accounts(pool)
        shuffled_accounts == Shuffle(active_accounts, seed)
        likes_accounts == select_likes_accounts(shuffled_accounts, likes_count)
    IN
    IF tweet_id = "None"
    THEN /\ job' = [job EXCEPT !.pc = "return",
                               !.result = ErrorResult("Invalid tweet URL")]
         /\ UNCHANGED slots
    ELSE IF Len(active_accounts) = 0
    THEN /\ job' = [job EXCEPT !.pc = "return",
                               !.result = ErrorResult("No active accounts available")]
         /\ UNCHANGED slots
    ELSE /\ job' = [job EXCEPT !.pc = "likes",
                               !.likes_count = likes_count,
                               !.retweets_count = retweets_count,
                               !.views_count = views_count,
                               !.shuffled = shuffled_accounts,
                               !.likes_accounts = likes_accounts,
                               !.results = new_results(tweet_id, url, stats)]
         /\ slots' = [slots EXCEPT !["likes"] = MakeSlots(likes_accounts)]

\* auto_engage_tweet up to its call of process_tweet_url: the active accounts are
\* read and the three counts drawn
auto_engage_tweet(counts) ==
    LET total_accounts == Len(get_active_accounts(pool)) IN
    IF total_accounts = 0
    THEN /\ counts = <<0, 0, 0>>
         /\ job' = [job EXCEPT !.pc = "return",
                               !.result = ErrorResult("No active accounts available")]
         /\ UNCHANGED slots
    ELSE /\ counts \in AutoCounts(total_accounts)
         /\ job' = [job EXCEPT !.pc = "auto",
                               !.total_accounts = total_accounts,
                               !.likes_count = counts[1],
                               !.retweets_count = counts[2],
                               !.views_count = counts[3]]
         /\ UNCHANGED slots

\* _execute_single_task after the status update: auto mode or custom numbers
preflight(seed, stats, counts) ==
    /\ job.pc \in {"start", "auto"}
    /\ LET task == tasks[job.task]
           auto == task.likes = 0 /\ task.retweets = 0 /\ task.views = 0
       IN
       IF auto
       THEN IF job.pc = "start"
            THEN auto_engage_tweet(counts)
            ELSE /\ counts = <<job.likes_count, job.retweets_count, job.views_count>>
                 /\ process_tweet_url(task.url, counts[1], counts[2], counts[3],
                                      seed, stats)
       ELSE /\ counts = <<task.likes, task.retweets, task.views>>
            /\ process_tweet_url(task.url, counts[1], counts[2], counts[3],
                                 seed, stats)
    /\ UNCHANGED <<tasks, pool, proxies, account_proxies, run, sem, acted, plan, my_proxies, bot>>

\* a variant without the semaphore
permit_free_uncapped(ph) == TRUE

\* asyncio.Semaphore: a permit is free
permit_free(ph) == sem[ph] > 0

\* a variant that sleeps before every action, the first included
jitter_window_every(ph, index) ==
    CASE ph = "likes" -> <<2, 8>>
      [] ph = "retweets" -> <<3, 12>>
      [] OTHER -> <<1, 5>>

\* if index > 0: delay = random.randint(lo, hi): the bounds of the draw, <<0, 0>>
\* when the coroutine does not sleep
jitter_window(ph, index) ==
    IF index > 0
    THEN CASE ph = "likes" -> <<2, 8>>
           [] ph = "retweets" -> <<3, 12>>
           [] OTHER -> <<1, 5>>
    ELSE <<0, 0>>

\* async with semaphore: the coroutine enters when a permit is free and starts
\* its jitter sleep; waiters are served in the order gather created them
acquire(ph, i) ==
    /\ i \in 1..Len(slots[ph])
    /\ slots[ph][i].pc = "wait"
    /\ \A j \in 1..(i - 1) : slots[ph][j].pc # "wait"
    /\ permit_free(ph)
    /\ sem' = [sem EXCEPT ![ph] = @ - 1]
    /\ slots' = [slots EXCEPT ![ph][i] =
                    [@ EXCEPT !.pc = "acquired",
                              !.jitter = jitter_window(ph, i - 1),
                              !.sleeps = IF jitter_window(ph, i - 1) # <<0, 0>>
                                         THEN @ + 1 ELSE @]]
    /\ UNCHANGED <<tasks, pool, proxies, account_proxies, run, job, acted, plan, my_proxies, bot>>

\* after the jitter sleep (none at index 0): the per-account API is built and the
\* primitive is called; _make_request takes the session the pool hands out
invoke(ph, i, cred) ==
    /\ ph \in {"likes", "retweets"}
    /\ i \in 1..Len(slots[ph])
    /\ slots[ph][i].pc = "acquired"
    /\ LET account == slots[ph][i].acct IN
        /\ slots' = [slots EXCEPT ![ph][i] =
                        [@ EXCEPT !.pc = "call",
                                  !.proxy = create_actions_api_for_account(
                                                account_proxies, account),
                                  !.cred = cred,
                                  !.calls = @ + 1]]
        /\ acted' = [acted EXCEPT ![account] = @ + 1]
    /\ UNCHANGED <<tasks, pool, proxies, account_proxies, run, job, sem, plan, my_proxies, bot>>

\* the primitive answers; the result is recorded and the permit released
settle(ph, i, outcome) ==
    /\ i \in 1..Len(slots[ph])
    /\ slots[ph][i].pc = "call"
    /\ job' = [job EXCEPT !.results =
                    record_outcome(@, ph, slots[ph][i].acct, outcome)]
    /\ slots' = [slots EXCEPT ![ph][i] =
                    [@ EXCEPT !.pc = "done", !.outcome = outcome,
                              !.cred = NoAccount]]
    /\ sem' = [sem EXCEPT ![ph] = @ + 1]
    /\ UNCHANGED <<tasks, pool, proxies, account_proxies, run, acted, plan, my_proxies, bot>>

\* process_view: TwitterActionsAPI has no view_tweet, so the call raises at once
\* and the except branch records it
invoke_view(i) ==
    /\ i \in 1..Len(slots["views"])
    /\ slots["views"][i].pc = "acquired"
    /\ LET account == slots["views"][i].acct IN
        /\ slots' = [slots EXCEPT !["views"][i] =
                        [@ EXCEPT !.pc = "done", !.outcome = "raise",
                                  !.proxy = create_actions_api_for_account(
                                                account_proxies, account)]]
        /\ job' = [job EXCEPT !.results =
                        record_outcome(@, "views", account, "raise")]
        /\ acted' = [acted EXCEPT ![account] = @ + 1]
    /\ sem' = [sem EXCEPT !["views"] = @ + 1]
    /\ UNCHANGED <<tasks, pool, proxies, account_proxies, run, plan, my_proxies, bot>>

\* a variant that does not await the gathered coroutines
gather_done_unawaited(ph) == TRUE

\* await asyncio.gather(*tasks): every coroutine of the phase has returned
gather_done(ph) == AllDone(ph)

\* a variant that sleeps after the likes whatever follows
delay_after_likes_unconditional(likes_count, retweets_count, views_count) ==
    IF likes_count > 0 THEN <<[after |-> "likes", window |-> <<5, 15>>]>> ELSE <<>>

\* the end of the likes block: random.randint(5, 15) seconds of sleep when
\* retweets or views are to follow
delay_after_likes(likes_count, retweets_count, views_count) ==
    IF likes_count > 0 /\ (retweets_count # 0 \/ views_count # 0)
    THEN <<[after |-> "likes", window |-> <<5, 15>>]>>
    ELSE <<>>

\* the end of the retweets block: random.randint(3, 10) seconds of sleep when
\* views are to follow
delay_after_retweets(retweets_count, views_count) ==
    IF retweets_count > 0 /\ views_count # 0
    THEN <<[after |-> "retweets", window |-> <<3, 10>>]>>
    ELSE <<>>

\* likes gathered (or skipped): the retweet accounts are carved and started
end_likes ==
    /\ job.pc = "likes"
    /\ gather_done("likes")
    /\ LET retweet_accounts ==
            select_retweet_accounts(job.shuffled, job.likes_accounts,
                                    job.likes_count, job.retweets_count)
       IN /\ job' = [job EXCEPT !.pc = "retweets",
                                !.delays = @ \o delay_after_likes(
                                    job.likes_count, job.retweets_count,
                                    job.views_count),
                                !.retweet_accounts = retweet_accounts]
          /\ slots' = [slots EXCEPT !["retweets"] = MakeSlots(retweet_accounts)]
    /\ UNCHANGED <<tasks, pool, proxies, account_proxies, run, sem, acted, plan, my_proxies, bot>>

\* retweets gathered (or skipped): the view accounts are carved and started
end_retweets ==
    /\ job.pc = "retweets"
    /\ gather_done("retweets")
    /\ LET view_accounts ==
            select_view_accounts(job.shuffled, job.likes_accounts,
                                 job.retweet_accounts, job.views_count)
       IN /\ job' = [job EXCEPT !.pc = "views",
                                !.delays = @ \o delay_after_retweets(
                                    job.retweets_count, job.views_count),
                                !.view_accounts = view_accounts]
          /\ slots' = [slots EXCEPT !["views"] = MakeSlots(view_accounts)]
    /\ UNCHANGED <<tasks, pool, proxies, account_proxies, run, sem, acted, plan, my_proxies, bot>>

with_final_stats(results, final_stats) ==
    IF final_stats = "None" THEN results
    ELSE [k \in DOMAIN results \cup {"final_stats"} |->
            IF k = "final_stats" THEN final_stats ELSE results[k]]

\* views gathered (or skipped): final stats, return results
end_views(final_stats) ==
    /\ job.pc = "views"
    /\ gather_done("views")
    /\ job' = [job EXCEPT !.pc = "return",
                          !.result = with_final_stats(job.results, final_stats)]
    /\ UNCHANGED <<tasks, pool, proxies, account_proxies, run, slots, sem, acted, plan, my_proxies, bot>>

\* a variant of the loop that stops at the first failed task
after_task_stop_on_failure(r, status) ==
    IF r.kind = "all"
    THEN [r EXCEPT !.success_count = @ + 1,
                   !.cooldowns = IF r.i < Len(r.queue) /\ status # "failed"
                                 THEN @ + 1 ELSE @,
                   !.state = IF r.i < Len(r.queue) /\ status # "failed"
                             THEN "cooldown" ELSE "menu"]
    ELSE [r EXCEPT !.state = "menu"]

\* a variant of the loop that goes on without the sleep after a failed task
after_task_no_sleep_after_failure(r, status) ==
    IF r.kind = "all"
    THEN [r EXCEPT !.success_count = @ + 1,
                   !.cooldowns = IF r.i < Len(r.queue) /\ status # "failed"
                                 THEN @ + 1 ELSE @,
                   !.state = IF r.i < Len(r.queue) THEN "cooldown" ELSE "menu"]
    ELSE [r EXCEPT !.state = "menu"]

\* execute_all_tasks after _execute_single_task returned: the tally, then the
\* cooldown (one asyncio.sleep(30)) when tasks are left; execute_task goes back
\* to the menu
after_task(r, status) ==
    IF r.kind = "all"
    THEN [r EXCEPT !.success_count = @ + 1,
                   !.cooldowns = IF r.i < Len(r.queue) THEN @ + 1 ELSE @,
                   !.state = IF r.i < Len(r.queue) THEN "cooldown" ELSE "menu"]
    ELSE [r EXCEPT !.state = "menu"]

\* _execute_single_task after the job returned; in execute_all_tasks the tally
\* and the cooldown before the next task follow
finish_single_task ==
    /\ job.pc = "return"
    /\ tasks' = update_task_status(tasks, tasks[job.task].id,
                                   task_outcome(job.result), job.result)
    /\ job' = IdleJob
    /\ run' = after_task(run, task_outcome(job.result))
    /\ slots' = NoSlots
    /\ sem' = FreshSem
    /\ UNCHANGED <<pool, proxies, account_proxies, acted, plan, my_proxies, bot>>

\* execute_all_tasks: the 30 s sleep is over, the next task of the snapshot starts
cooldown ==
    /\ run.state = "cooldown"
    /\ run' = [run EXCEPT !.i = @ + 1, !.state = "running"]
    /\ begin_single_task(run.queue[run.i + 1])
    /\ UNCHANGED <<pool, proxies, account_proxies, plan, my_proxies, bot>>

----------------------------------------------------------------------------
(* Inputs *)

Priorities == {"normal", "high"}
Outcomes == {"ok", "fail", "raise"}
ProxyURIs == 1..MaxProxies

Max(a, b) == IF a > b THEN a ELSE b

\* the counts a job can be run with: the task's own, or what auto mode draws
CountSpace ==
    LET top == Max(Max(MaxCount, ShortCount), Len(pool)) IN
    {<<l, r, v>> : l \in 0..top, r \in 0..top, v \in 0..top}

\* pool.get_for_queue_or_wait: the pool hands out any of its active accounts
get_for_queue_or_wait(p) == Range(get_active_accounts(p))

\* pools of n accounts: all active, the first or the last inactive, none active
Pools(n) ==
    {[i \in 1..n |-> [username |-> i, active |-> i \notin off]] :
        off \in {{}, {1}, {n}, 1..n}}

\* pools of n accounts of which the first a are active, a >= 1
PoolsWithActive(n) ==
    {[i \in 1..n |-> [username |-> i, active |-> i <= a]] : a \in 1..n}

\* pools of n accounts: all active, none active
UniformPools(n) ==
    {[i \in 1..n |-> [username |-> i, active |-> on]] : on \in BOOLEAN}

InitWith(ts, p, px) ==
    /\ tasks = ts
    /\ pool = p
    /\ proxies = px
    /\ account_proxies = px
    /\ run = IdleRun
    /\ job = IdleJob
    /\ slots = NoSlots
    /\ sem = FreshSem
    /\ acted = [u \in {p[i].username : i \in 1..Len(p)} |-> 0]
    /\ plan = NoPlan
    /\ my_proxies = <<>>
    /\ bot = NoBot

\* the coroutines of the phases, with the sessions and answers drawn from the sets
dispatch(any_session, outs) ==
    \/ \E ph \in PhaseSet : \E i \in 1..Len(slots[ph]) : acquire(ph, i)
    \/ \E ph \in PhaseSet : \E i \in 1..Len(slots[ph]) :
          \E cred \in (IF any_session THEN get_for_queue_or_wait(pool)
                                     ELSE {slots[ph][i].acct}) :
             invoke(ph, i, cred)
    \/ \E ph \in PhaseSet : \E i \in 1..Len(slots[ph]) : \E o \in outs :
          settle(ph, i, o)
    \/ \E i \in 1..Len(slots["views"]) : invoke_view(i)

\* the orchestrating coroutine of one job
orchestrate(seeds, stats) ==
    \/ \E seed \in seeds, st \in stats, counts \in CountSpace :
          preflight(seed, st, counts)
    \/ end_likes
    \/ end_retweets
    \/ \E st \in stats : end_views(st)
    \/ finish_single_task

----------------------------------------------------------------------------
(* Spec: the task queue. A fresh task list, a pool of QueueAccounts accounts. *)

QueueCounts == {<<0, 0, 0>>, <<1, 0, 0>>}
\* URL shapes: a status URL and one without a status id (a bare numeric id, "1",
\* is the third shape extract_tweet_id knows)
QueueUrls == {"x.com/u/status/1", "x.com/u"}

Init ==
    \E p \in UniformPools(QueueAccounts) : InitWith(<<>>, p, <<>>)

Next ==
    \/ \E url \in QueueUrls, c \in QueueCounts, pr \in Priorities :
          add_task(url, c[1], c[2], c[3], pr)
    \/ \E choice \in 1..MaxTasks : execute_task(choice)
    \/ execute_all_tasks
    \/ cooldown
    \/ orchestrate({0}, {"None"})
    \/ dispatch(FALSE, {"ok", "fail"})

Spec == Init /\ [][Next]_vars

----------------------------------------------------------------------------
(* SpecJob: one job, every pool of MaxAccounts accounts, every count triple. *)

InitJob ==
    \E p \in Pools(MaxAccounts), url \in QueueUrls :
    \E l \in 0..MaxCount, r \in 0..MaxCount, v \in 0..MaxCount :
        InitWith(<<new_task(<<>>, url, l, r, v, "normal")>>, p, <<>>)

NextJob ==
    \/ execute_task(1)
    \/ orchestrate(0..(MaxSeed - 1), {"stats"})
    \/ dispatch(FALSE, Outcomes)

SpecJob == InitJob /\ [][NextJob]_vars

----------------------------------------------------------------------------
(* SpecCap: one job whose phase is larger than the semaphore. *)

InitCap ==
    \E c \in {<<CapAccounts, 0, 0>>, <<0, CapAccounts, 0>>, <<0, 0, CapAccounts>>} :
        InitWith(<<new_task(<<>>, "1", c[1], c[2], c[3], "normal")>>,
                 [i \in 1..CapAccounts |-> [username |-> i, active |-> TRUE]],
                 <<>>)

NextCap ==
    \/ execute_task(1)
    \/ orchestrate({0}, {"None"})
    \/ dispatch(FALSE, {"ok", "raise"})

SpecCap == InitCap /\ [][NextCap]_vars

----------------------------------------------------------------------------
(* SpecProxy: proxy assignments made in the menu, then a job. *)

InitProxy ==
    \E px \in {<<>>, [u \in {1} |-> 1]} :
        InitWith(<<new_task(<<>>, "1", 1, 0, 1, "normal")>>,
                 [i \in 1..QueueAccounts |-> [username |-> i, active |-> TRUE]],
                 px)

NextProxy ==
    \/ \E u \in 1..QueueAccounts, px \in ProxyURIs : assign_proxy(u, px)
    \/ \E u \in 1..QueueAccounts : remove_proxy(u)
    \/ execute_task(1)
    \/ orchestrate({0}, {"None", "stats"})
    \/ dispatch(TRUE, {"ok"})

SpecProxy == InitProxy /\ [][NextProxy]_vars

----------------------------------------------------------------------------
(* SpecShort: one job whose counts may exceed the number of active accounts. *)

InitShort ==
    \E p \in PoolsWithActive(ShortAccounts) :
    \E l \in 0..ShortCount, r \in 0..ShortCount, v \in 0..ShortCount :
        InitWith(<<new_task(<<>>, "1", l, r, v, "normal")>>, p, <<>>)

NextShort ==
    \/ execute_task(1)
    \/ orchestrate({0, 1}, {"None"})
    \/ dispatch(FALSE, {"ok", "fail"})

SpecShort == InitShort /\ [][NextShort]_vars

----------------------------------------------------------------------------
(* SpecReads: one job while the account store changes under it. *)

\* pool.accounts_info: the store answers each call with the flags it holds then;
\* between two calls of one job an account's flag may have changed
accounts_info_changes(i) ==
    /\ job.pc \in {"start", "auto"}
    /\ i \in 1..Len(pool)
    /\ pool' = [pool EXCEPT ![i].active = ~pool[i].active]
    /\ UNCHANGED <<tasks, proxies, account_proxies, run, job, slots, sem, acted, plan, my_proxies, bot>>

InitReads ==
    \E c \in {<<0, 0, 0>>, <<1, 0, 1>>} :
        InitWith(<<new_task(<<>>, "1", c[1], c[2], c[3], "normal")>>,
                 [i \in 1..ReadAccounts |-> [username |-> i, active |-> TRUE]],
                 <<>>)

NextReads ==
    \/ execute_task(1)
    \/ \E i \in 1..ReadAccounts : accounts_info_changes(i)
    \/ orchestrate({0}, {"None"})
    \/ dispatch(FALSE, {"ok"})

SpecReads == InitReads /\ [][NextReads]_vars

----------------------------------------------------------------------------
(* SpecDistribute: proxies are removed by hand and distributed from my_proxies.txt *)

ProxyAssignments(usernames) ==
    UNION {[have -> ProxyURIs] : have \in SUBSET usernames}

ProxyLists ==
    UNION {[1..n -> ProxyURIs] : n \in 0..MaxProxyList}

InitDistribute ==
    \E px \in ProxyAssignments(1..MaxAccounts), lines \in ProxyLists :
        /\ tasks = <<>>
        /\ pool = [i \in 1..MaxAccounts |-> [username |-> i, active |-> TRUE]]
        /\ proxies = px
        /\ account_proxies = px
        /\ run = IdleRun
        /\ job = IdleJob
        /\ slots = NoSlots
        /\ sem = FreshSem
        /\ acted = [u \in 1..MaxAccounts |-> 0]
        /\ plan = NoPlan
        /\ my_proxies = lines
        /\ bot = NoBot

NextDistribute ==
    \/ \E u \in 1..MaxAccounts : remove_proxy(u)
    \/ \E confirm \in {"y", "n"} : auto_assign_proxies(confirm)

SpecDistribute == InitDistribute /\ [][NextDistribute]_vars

----------------------------------------------------------------------------
(* TwitterTelegramBot (telegram_bot.py). Strings that the code splits or compares *)
(* character by character are sequences of one-character strings.              *)

Digit(d) == <<"0", "1", "2", "3", "4", "5", "6", "7", "8", "9">>[d + 1]

\* str(n) of a non-negative integer
RECURSIVE str(_)
str(n) == IF n < 10 THEN <<Digit(n)>> ELSE str(n \div 10) \o <<Digit(n % 10)>>

\* s.split(sep): the pieces between the separators; one piece, s itself, when s
\* holds no separator, the empty string included
RECURSIVE split(_, _)
split(s, sep) ==
    IF \E i \in 1..Len(s) : s[i] = sep
    THEN LET i == CHOOSE k \in 1..Len(s) :
                      s[k] = sep /\ \A j \in 1..(k - 1) : s[j] # sep
         IN <<SubSeq(s, 1, i - 1)>> \o split(SubSeq(s, i + 1, Len(s)), sep)
    ELSE <<s>>

\* os.getenv(name, default)
getenv(env, name, default) == IF name \in DOMAIN env THEN env[name] ELSE default

\* TwitterBotConfig.__init__ (AUTO_MODE left at its default)
TwitterBotConfig(env) ==
    [allowed_groups |-> split(getenv(env, "ALLOWED_GROUPS", <<>>), ","),
     allowed_users |-> split(getenv(env, "ALLOWED_USERS", <<>>), ","),
     auto_mode |-> TRUE]

\* TwitterTelegramBot.is_authorized
is_authorized(config, user_id, chat_id) ==
    IF str(chat_id) \in Range(config.allowed_groups) THEN TRUE
    ELSE IF str(user_id) \in Range(config.allowed_users) THEN TRUE
    ELSE IF Len(config.allowed_groups) = 0 /\ Len(config.allowed_users) = 0 THEN TRUE
    ELSE FALSE

\* TwitterTelegramBot.extract_twitter_urls on a message that is one word
extract_twitter_urls(text) ==
    IF text \in {"x.com/u/status/1", "x.com/u/status/2"} THEN {text} ELSE {}

IdleHandler == [pc |-> "idle", tweet_id |-> "None", manual |-> FALSE]

TweetIds == {"1", "2"}

\* TwitterTelegramBot.__init__
NewBot(env) ==
    [env |-> env, config |-> TwitterBotConfig(env), processed_tweets |-> {},
     handlers |-> [h \in 1..MaxHandlers |-> IdleHandler],
     engaged |-> [id \in TweetIds |-> 0], last |-> None]

\* process_tweet_from_message up to its first await: the id is extracted and
\* looked up in processed_tweets
process_tweet_from_message(b, h, tweet_url, manual) ==
    LET tweet_id == extract_tweet_id(tweet_url) IN
    IF tweet_id = "None" THEN b
    ELSE IF tweet_id \in b.processed_tweets THEN b
    ELSE [b EXCEPT !.handlers[h] =
                      [pc |-> "checked", tweet_id |-> tweet_id, manual |-> manual]]

Authorization(user_id, chat_id) ==
    [user_id |-> user_id, chat_id |-> chat_id,
     authorized |-> is_authorized(bot.config, user_id, chat_id)]

BotFrame ==
    UNCHANGED <<tasks, pool, proxies, account_proxies, run, job, slots, sem, acted,
                plan, my_proxies>>

\* TwitterTelegramBot.process_command: /process <url>
process_command(h, user_id, chat_id, tweet_url) ==
    /\ bot.config # None
    /\ bot.handlers[h].pc = "idle"
    /\ LET b == [bot EXCEPT !.last = Authorization(user_id, chat_id)] IN
       bot' = IF ~b.last.authorized THEN b
              ELSE process_tweet_from_message(b, h, tweet_url, TRUE)
    /\ BotFrame

\* TwitterTelegramBot.handle_message: a text message
handle_message(h, user_id, chat_id, message_text) ==
    /\ bot.config # None
    /\ bot.handlers[h].pc = "idle"
    /\ LET b == [bot EXCEPT !.last = Authorization(user_id, chat_id)]
           twitter_urls == extract_twitter_urls(message_text)
       IN
       bot' = IF ~b.last.authorized THEN b
              ELSE IF ~bot.config.auto_mode THEN b
              ELSE IF twitter_urls = {} THEN b
              ELSE process_tweet_from_message(b, h, CHOOSE url \in twitter_urls : TRUE,
                                              FALSE)
    /\ BotFrame

\* TwitterTelegramBot.auto_command: /auto on | off
auto_command(user_id, chat_id, new_mode) ==
    /\ bot.config # None
    /\ LET b == [bot EXCEPT !.last = Authorization(user_id, chat_id)] IN
       bot' = IF ~b.last.authorized THEN b
              ELSE [b EXCEPT !.config.auto_mode = new_mode]
    /\ BotFrame

\* process_tweet_from_message after the delay and the reply: the engagement is called
engage(h) ==
    /\ bot.config # None
    /\ bot.handlers[h].pc = "checked"
    /\ bot.engaged[bot.handlers[h].tweet_id] < MaxEngaged
    /\ bot' = [bot EXCEPT !.handlers[h].pc = "engaging",
                          !.engaged[bot.handlers[h].tweet_id] = @ + 1]
    /\ BotFrame

\* the engagement call has returned, with a result or with {"error": ...}
engagement_returns(h, result) ==
    /\ bot.config # None
    /\ bot.handlers[h].pc = "engaging"
    /\ bot' = [bot EXCEPT !.processed_tweets = @ \cup {bot.handlers[h].tweet_id},
                          !.handlers[h] = IdleHandler]
    /\ BotFrame

----------------------------------------------------------------------------
(* SpecBot: the Telegram bot and its environment variables *)

EnvValues == {<<"1">>, <<"1", ",", "2">>}

Environments ==
    UNION {[names -> EnvValues] : names \in SUBSET {"ALLOWED_GROUPS", "ALLOWED_USERS"}}

BotTexts == {"x.com/u/status/1", "x.com/u/status/2", "hello"}

InitBot ==
    \E env \in Environments :
        /\ tasks = <<>>
        /\ pool = <<>>
        /\ proxies = <<>>
        /\ account_proxies = <<>>
        /\ run = IdleRun
        /\ job = IdleJob
        /\ slots = NoSlots
        /\ sem = FreshSem
        /\ acted = <<>>
        /\ plan = NoPlan
        /\ my_proxies = <<>>
        /\ bot = NewBot(env)

NextBot ==
    \/ \E h \in 1..MaxHandlers, u \in 1..MaxTelegramId, c \in 1..MaxTelegramId,
          url \in BotTexts : process_command(h, u, c, url)
    \/ \E h \in 1..MaxHandlers, u \in 1..MaxTelegramId, c \in 1..MaxTelegramId,
          text \in BotTexts : handle_message(h, u, c, text)
    \/ \E u \in 1..MaxTelegramId, c \in 1..MaxTelegramId, new_mode \in BOOLEAN :
          auto_command(u, c, new_mode)
    \/ \E h \in 1..MaxHandlers : engage(h)
    \/ \E h \in 1..MaxHandlers, result \in {"result", "error"} :
          engagement_returns(h, result)

SpecBot == InitBot /\ [][NextBot]_vars

----------------------------------------------------------------------------
(* SpecLive: a list of pending tasks is executed; the event loop runs every    *)
(* coroutine that is ready, and every primitive and stats call answers.        *)

InitLive ==
    \E p \in UniformPools(QueueAccounts) :
    \E f \in [1..LiveTasks -> QueueUrls \X QueueCounts] :
        InitWith([i \in 1..LiveTasks |->
                     new_task([j \in 1..(i - 1) |-> j], f[i][1], f[i][2][1],
                              f[i][2][2], f[i][2][3], "normal")],
                 p, <<>>)

\* the steps of the job that is running
RunningJob ==
    \/ orchestrate({0}, {"None"})
    \/ dispatch(FALSE, {"ok", "fail"})

NextLive ==
    \/ \E choice \in 1..LiveTasks : execute_task(choice)
    \/ execute_all_tasks
    \/ cooldown
    \/ RunningJob

SpecLive == InitLive /\ [][NextLive]_vars /\ WF_vars(RunningJob)

----------------------------------------------------------------------------
(* RealisticEngagement (twitter_actions.py) *)

EngagementTypes == {"viral", "popular", "normal", "low", "auto"}

\* the bounds handed to random.uniform, in hundredths
engagement_ratios(engagement_type) ==
    CASE engagement_type = "viral" ->
            [views |-> <<80, 95>>, likes |-> <<40, 70>>, retweets |-> <<15, 30>>]
      [] engagement_type = "popular" ->
            [views |-> <<60, 80>>, likes |-> <<25, 45>>, retweets |-> <<8, 18>>]
      [] engagement_type = "normal" ->
            [views |-> <<40, 60>>, likes |-> <<15, 30>>, retweets |-> <<3, 10>>]
      [] OTHER ->
            [views |-> <<20, 40>>, likes |-> <<5, 15>>, retweets |-> <<1, 5>>]

\* a variant whose thresholds are inclusive
auto_engagement_type_inclusive(total_accounts) ==
    IF total_accounts >= 50 THEN "popular"
    ELSE IF total_accounts >= 20 THEN "normal"
    ELSE "low"

\* the else branch of calculate_engagement: the profile auto recurses into
auto_engagement_type(total_accounts) ==
    IF total_accounts > 50 THEN "popular"
    ELSE IF total_accounts > 20 THEN "normal"
    ELSE "low"

\* int(self.total_accounts * ratio), the ratio in hundredths
scaled(total_accounts, ratio) == (total_accounts * ratio) \div 100

\* a variant without the max(floor, ...)
clamp_count_unfloored(raw, floor, total_accounts) == Min(raw, total_accounts)

\* min(max(floor, raw), self.total_accounts)
clamp_count(raw, floor, total_accounts) == Min(Max(floor, raw), total_accounts)

\* RealisticEngagement(total_accounts).calculate_engagement(engagement_type), with
\* the three ratios random.uniform draws
calculate_engagement(engagement_type, views_ratio, likes_ratio, retweets_ratio) ==
    /\ plan.engagement_type = "none"
    /\ LET total_accounts == plan.total_accounts
           profile == IF engagement_type \in {"viral", "popular", "normal", "low"}
                      THEN engagement_type
                      ELSE auto_engagement_type(total_accounts)
           bounds == engagement_ratios(profile)
           raw == [views |-> scaled(total_accounts, views_ratio),
                   likes |-> scaled(total_accounts, likes_ratio),
                   retweets |-> scaled(total_accounts, retweets_ratio)]
       IN
       IF total_accounts = 0
       THEN /\ views_ratio = 0 /\ likes_ratio = 0 /\ retweets_ratio = 0
            /\ plan' = [plan EXCEPT !.engagement_type = engagement_type]
       ELSE /\ views_ratio \in bounds.views[1]..bounds.views[2]
            /\ likes_ratio \in bounds.likes[1]..bounds.likes[2]
            /\ retweets_ratio \in bounds.retweets[1]..bounds.retweets[2]
            /\ plan' = [plan EXCEPT
                  !.engagement_type = engagement_type,
                  !.profile = profile,
                  !.raw = raw,
                  !.result = [views |-> clamp_count(raw.views, 1, total_accounts),
                              likes |-> clamp_count(raw.likes, 1, total_accounts),
                              retweets |-> clamp_count(raw.retweets, 0, total_accounts)]]
    /\ UNCHANGED <<tasks, pool, proxies, account_proxies, run, job, slots, sem, acted,
                   my_proxies, bot>>

----------------------------------------------------------------------------
(* SpecPlan: one RealisticEngagement per pool size, one call of it. *)

InitPlan ==
    \E n \in 0..MaxPlanPool :
        /\ tasks = <<>>
        /\ pool = <<>>
        /\ proxies = <<>>
        /\ account_proxies = <<>>
        /\ run = IdleRun
        /\ job = IdleJob
        /\ slots = NoSlots
        /\ sem = FreshSem
        /\ acted = <<>>
        /\ plan = [NoPlan EXCEPT !.total_accounts = n]
        /\ my_proxies = <<>>
        /\ bot = NoBot

\* calculate_engagement is called once on each instance
PlanCalls == IF plan.engagement_type = "none" THEN EngagementTypes ELSE {}

\* random.uniform(lo, hi) of the branch the call takes, in hundredths
uniform(engagement_type, count) ==
    IF plan.total_accounts = 0 THEN {0}
    ELSE LET profile == IF engagement_type = "auto"
                        THEN auto_engagement_type(plan.total_accounts)
                        ELSE engagement_type
             bounds == engagement_ratios(profile)[count]
         IN bounds[1]..bounds[2]

NextPlan ==
    \E ty \in PlanCalls :
        \E vr \in uniform(ty, "views"), lr \in uniform(ty, "likes"),
           rr \in uniform(ty, "retweets") :
            calculate_engagement(ty, vr, lr, rr)

SpecPlan == InitPlan /\ [][NextPlan]_vars

----------------------------------------------------------------------------
(* Claims *)

Terminal == {"completed", "failed"}
LiveSlots == UNION {{<<ph, i>> : i \in 1..Len(slots[ph])} : ph \in PhaseSet}
Slot(x) == slots[x[1]][x[2]]
Started(ph) == \E i \in 1..Len(slots[ph]) : slots[ph][i].pc # "wait"
Achieved(ph) ==
    Cardinality({i \in 1..Len(slots[ph]) : slots[ph][i].outcome = "ok"})
Failed(ph) ==
    Cardinality({i \in 1..Len(slots[ph]) :
                    slots[ph][i].outcome \in {"fail", "raise"}})
ErrorsOf(ph) ==
    {n \in 1..Len(job.results.errors) : job.results.errors[n].phase = ph}
InJob == job.pc \in {"likes", "retweets", "views", "return"} /\ job.results # None

C2_AtMostFiveInFlight ==
    \A ph \in PhaseSet :
        /\ Cardinality(InFlight(ph)) <= MaxConcurrent
        /\ sem[ph] = MaxConcurrent - Cardinality(InFlight(ph))

C2_Witness ==
    \E ph \in PhaseSet :
        /\ Cardinality(InFlight(ph)) = MaxConcurrent
        /\ \E i \in 1..Len(slots[ph]) : slots[ph][i].pc = "wait"
        /\ \E i \in 1..Len(slots[ph]) : slots[ph][i].pc = "call"

\* C3: a task's status moves only pending -> processing -> completed | failed,
\* only a pending task is started, and a completed or failed task keeps its
\* status and result.
C3_StatusMachine ==
    [][/\ \A k \in 1..Len(tasks) :
            /\ tasks[k].status # tasks'[k].status =>
                  <<tasks[k].status, tasks'[k].status>> \in
                     {<<"pending", "processing">>, <<"processing", "completed">>,
                      <<"processing", "failed">>}
            /\ tasks[k].status \in Terminal =>
                  /\ tasks'[k].status = tasks[k].status
                  /\ tasks'[k].result = tasks[k].result
        /\ (job'.pc = "start" /\ job.pc # "start") =>
              tasks[job'.task].status = "pending"]_vars

C3_Witness ==
    /\ Len(tasks) = MaxTasks
    /\ tasks[1].status = "completed"
    /\ tasks[2].status = "failed"
    /\ job.pc = "idle"

\* C4: execute_all_tasks runs the tasks pending at its start one after another,
\* each once, also after a failed one; when it returns none of them is pending
\* or processing.
C4_ExecuteAllDrains ==
    /\ run.state \in {"running", "cooldown"} => run.i \in 1..Len(run.queue)
    /\ run.state = "running" => job.task = run.queue[run.i]
    /\ run.kind = "all" =>
          /\ \A n \in 1..Len(run.queue) :
                /\ n < run.i => tasks[run.queue[n]].status \in Terminal
                /\ n > run.i => tasks[run.queue[n]].status = "pending"
          /\ tasks[run.queue[run.i]].status \in
                (IF run.state = "running" THEN {"processing"} ELSE Terminal)
          /\ run.state = "menu" => run.i = Len(run.queue)
          /\ \A m \in 1..Len(run.queue), n \in 1..Len(run.queue) :
                m < n => run.queue[m] < run.queue[n]

C4_Witness ==
    /\ run.kind = "all"
    /\ run.state = "menu"
    /\ Len(run.queue) >= 2
    /\ tasks[run.queue[1]].status = "failed"
    /\ tasks[run.queue[2]].status = "completed"

\* C5: every action that answers false or raises adds exactly one error naming
\* its account and stops no sibling; the achieved count is the number of actions
\* that answered true, and when a phase has ended achieved plus errors is the
\* number of its accounts.
C5_PhaseAccounting ==
    InJob =>
      \A ph \in PhaseSet :
        /\ job.results.actions[ph] = Achieved(ph)
        /\ Cardinality(ErrorsOf(ph)) = Failed(ph)
        /\ \A i \in 1..Len(slots[ph]) :
              Cardinality({n \in ErrorsOf(ph) :
                            job.results.errors[n].account = slots[ph][i].acct})
                = (IF slots[ph][i].outcome \in {"fail", "raise"} THEN 1 ELSE 0)
        /\ (AllDone(ph) /\ job.pc # ph) =>
              /\ job.results.actions[ph] + Cardinality(ErrorsOf(ph)) = Len(slots[ph])
              /\ \A i \in 1..Len(slots[ph]) : acted[slots[ph][i].acct] = 1

C5_Witness ==
    /\ job.pc = "retweets"
    /\ Len(slots["likes"]) = 2
    /\ slots["likes"][1].outcome = "raise"
    /\ slots["likes"][2].outcome = "ok"
    /\ Len(slots["retweets"]) = 1
    /\ slots["retweets"][1].outcome = "fail"

\* C6: a task ends failed exactly when the pre-flight fails (no tweet id in the
\* URL, or no active account); a job whose actions all fail or raise ends
\* completed with the failures in its error list.
C6_FailedOnlyPreflight ==
    \A k \in 1..Len(tasks) :
        /\ tasks[k].status = "failed" =>
              /\ \/ extract_tweet_id(tasks[k].url) = "None"
                 \/ Len(get_active_accounts(pool)) = 0
              /\ tasks[k].result \in
                    {ErrorResult("Invalid tweet URL"),
                     ErrorResult("No active accounts available")}
        /\ tasks[k].status = "completed" =>
              /\ extract_tweet_id(tasks[k].url) # "None"
              /\ Len(get_active_accounts(pool)) > 0

C6_Witness ==
    /\ tasks[1].status = "completed"
    /\ tasks[1].result.actions = [likes |-> 0, retweets |-> 0, views |-> 0]
    /\ Len(tasks[1].result.errors) = 3
    /\ tasks[1].result.errors[1].kind = "failed"
    /\ tasks[1].result.errors[2].kind = "error"

\* C7: when a job fails pre-flight no like, retweet or view was dispatched for
\* any account, and the failed task's result holds the error message only.
C7_FailedJobDidNothing ==
    /\ (job.pc = "return" /\ "error" \in DOMAIN job.result) =>
          /\ DOMAIN job.result = {"error"}
          /\ LiveSlots = {}
          /\ \A u \in DOMAIN acted : acted[u] = 0
    /\ \A k \in 1..Len(tasks) :
          tasks[k].status = "failed" => DOMAIN tasks[k].result = {"error"}
    /\ (job.pc = "idle" /\ run.kind # "none"
            /\ tasks[run.queue[run.i]].status = "failed") =>
          \A u \in DOMAIN acted : acted[u] = 0

C7_Witness ==
    /\ job.pc = "idle"
    /\ tasks[1].status = "failed"
    /\ tasks[1].likes > 0
    /\ tasks[1].result = ErrorResult("Invalid tweet URL")
    /\ Len(get_active_accounts(pool)) > 1

\* C8: no retweet action starts before every like action has settled, and no
\* view action starts before every retweet (and like) action has settled.
C8_PhasesInOrder ==
    /\ Started("retweets") => AllDone("likes")
    /\ Started("views") => AllDone("likes") /\ AllDone("retweets")

C8_Witness ==
    /\ Len(slots["likes"]) = 2
    /\ Len(slots["retweets"]) > 0
    /\ slots["retweets"][1].pc = "call"

\* C9: every action dispatched for an account is sent with that account's own
\* session and through that account's proxy.
C9_OwnSession ==
    \A x \in LiveSlots :
        Slot(x).pc = "call" =>
            /\ Slot(x).cred = Slot(x).acct
            /\ Slot(x).proxy = get_account_proxy(account_proxies, Slot(x).acct)

\* C10: the proxy an action for an account is sent through is the one most
\* recently assigned to it in the proxy manager, none when removed or never set.
C10_LatestProxy ==
    \A x \in LiveSlots :
        Slot(x).pc \in {"call", "done"} =>
            Slot(x).proxy = get_account_proxy(proxies, Slot(x).acct)

PlanCountsOf(b, n) ==
    {[views |-> Min(Max(1, (n * vr) \div 100), n),
      likes |-> Min(Max(1, (n * lr) \div 100), n),
      retweets |-> Min(Max(0, (n * rr) \div 100), n)] :
        vr \in b.views[1]..b.views[2], lr \in b.likes[1]..b.likes[2],
        rr \in b.retweets[1]..b.retweets[2]}
AutoPlan(n) ==
    PlanCountsOf(IF n > 50 THEN engagement_ratios("popular")
                 ELSE IF n > 20 THEN engagement_ratios("normal")
                 ELSE engagement_ratios("low"), n)
JobCounts ==
    [views |-> job.views_count, likes |-> job.likes_count,
     retweets |-> job.retweets_count]

\* C11: a task whose three requested counts are all zero runs with the counts
\* RealisticEngagement plans (auto profile) for the number of active accounts; a
\* task with a nonzero count runs with exactly its own counts, and a phase whose
\* count is zero dispatches nothing.
C11_CountsFromPlanner ==
    InJob =>
      LET task == tasks[job.task]
          n == Len(get_active_accounts(pool))
      IN /\ IF task.likes = 0 /\ task.retweets = 0 /\ task.views = 0
            THEN JobCounts \in AutoPlan(n)
            ELSE JobCounts = [views |-> task.views, likes |-> task.likes,
                              retweets |-> task.retweets]
         /\ job.likes_count = 0 => Len(job.likes_accounts) = 0
         /\ job.retweets_count = 0 => Len(job.retweet_accounts) = 0
         /\ job.views_count = 0 => Len(job.view_accounts) = 0

InRange(x, lo, hi) == lo <= x /\ x <= hi
Planned == plan.engagement_type # "none" /\ plan.total_accounts > 0

\* C12: for every pool size N > 0 and every profile the plan has 1 <= views <= N,
\* 1 <= likes <= N and 0 <= retweets <= N, and each count before clamping lies
\* between floor(N * lower ratio) and floor(N * upper ratio) of the profile; for
\* N = 30 under normal: likes in 4..9, retweets in 0..3, views in 12..18.
C12_PlanWithinBounds ==
    Planned =>
      LET n == plan.total_accounts
          b == engagement_ratios(plan.profile)
      IN /\ InRange(plan.result.views, 1, n)
         /\ InRange(plan.result.likes, 1, n)
         /\ InRange(plan.result.retweets, 0, n)
         /\ \A k \in {"views", "likes", "retweets"} :
               InRange(plan.raw[k], (n * b[k][1]) \div 100, (n * b[k][2]) \div 100)
         /\ (n = 30 /\ plan.engagement_type = "normal") =>
               /\ InRange(plan.result.likes, 4, 9)
               /\ InRange(plan.result.retweets, 0, 3)
               /\ InRange(plan.result.views, 12, 18)

C12_Witness ==
    /\ plan.total_accounts = 30
    /\ plan.engagement_type = "normal"
    /\ plan.result = [views |-> 18, likes |-> 4, retweets |-> 0]

\* C13: with the auto profile the plan is drawn from the popular ratios when the
\* pool has more than 50 accounts, from the normal ratios when it has more than
\* 20 and at most 50, and from the low ratios when it has at most 20.
C13_AutoProfile ==
    (Planned /\ plan.engagement_type = "auto") =>
      LET n == plan.total_accounts
          within(vlo, vhi, llo, lhi, rlo, rhi) ==
              /\ InRange(plan.raw.views, (n * vlo) \div 100, (n * vhi) \div 100)
              /\ InRange(plan.raw.likes, (n * llo) \div 100, (n * lhi) \div 100)
              /\ InRange(plan.raw.retweets, (n * rlo) \div 100, (n * rhi) \div 100)
      IN CASE n > 50 -> plan.profile = "popular" /\ within(60, 80, 25, 45, 8, 18)
           [] n > 20 /\ n <= 50 ->
                 plan.profile = "normal" /\ within(40, 60, 15, 30, 3, 10)
           [] OTHER -> plan.profile = "low" /\ within(20, 40, 5, 15, 1, 5)

C13_Witness ==
    /\ plan.engagement_type = "auto"
    /\ plan.total_accounts = 50
    /\ plan.profile = "normal"
    /\ plan.result.views = 30

C15_EnqueueFreshId ==
    [][/\ Len(tasks') > Len(tasks) =>
            LET t == tasks'[Len(tasks')] IN
            /\ Len(tasks') = Len(tasks) + 1
            /\ SubSeq(tasks', 1, Len(tasks)) = tasks
            /\ t.status = "pending"
            /\ t.result = None
            /\ t.processed_at = "None"
            /\ \A k \in 1..Len(tasks) : t.id > tasks[k].id
       /\ \A i \in 1..Len(tasks'), j \in 1..Len(tasks') :
            i # j => tasks'[i].id # tasks'[j].id]_vars

C15_Witness ==
    /\ Len(tasks) = 2
    /\ tasks[1].status = "completed"
    /\ tasks[2].status = "pending"
    /\ tasks[2].id > tasks[1].id
    /\ run.state = "menu"

Processing == {k \in 1..Len(tasks) : tasks[k].status = "processing"}

\* C16: execute_all_tasks starts the pending tasks lowest id first; a task's
\* priority does not change that order.
C16_LowestIdFirst ==
    [][(job'.pc = "start" /\ job.pc # "start" /\ run'.kind = "all") =>
          \A k \in 1..Len(tasks) :
              tasks[k].status = "pending" => tasks[job'.task].id <= tasks[k].id]_vars

C16_Witness ==
    /\ run.kind = "all"
    /\ job.pc = "start"
    /\ job.task = 1
    /\ Len(tasks) = 2
    /\ tasks[1].priority = "normal"
    /\ tasks[2].priority = "high"
    /\ tasks[2].status = "pending"

InFlightFor(u) ==
    {x \in LiveSlots : Slot(x).acct = u /\ Slot(x).pc \in {"acquired", "call"}}

CountFields == {"tweet_id", "tweet_url", "initial_stats", "final_stats", "errors"}

\* C19: the result of every completed job holds, for each action type, the
\* targeted count next to the achieved count, and the list of errors.
C19_ResultHasTargets ==
    (job.pc = "return" /\ "error" \notin DOMAIN job.result /\ job.likes_count > 0) =>
        /\ "actions" \in DOMAIN job.result
        /\ "errors" \in DOMAIN job.result
        /\ \E f \in DOMAIN job.result \ (CountFields \cup {"actions"}) :
              job.result[f] = [likes |-> job.likes_count,
                               retweets |-> job.retweets_count,
                               views |-> job.views_count]

\* C20: for every account selected for a phase the phase's primitive is invoked
\* exactly once, and every invocation that answers true raises the achieved
\* count of the phase by one, so a views phase whose views all succeed counts
\* every selected account and adds no error.
C20_PrimitiveOncePerAccount ==
    InJob =>
      \A ph \in PhaseSet :
        /\ \A i \in 1..Len(slots[ph]) :
              slots[ph][i].pc = "done" => slots[ph][i].calls = 1
        /\ job.results.actions[ph] = Achieved(ph)

\* C26: in every state of the task list a task's processed_at is set if and only
\* if its status is completed; pending, processing and failed tasks have none.
C26_ProcessedAtIffCompleted ==
    \A k \in 1..Len(tasks) :
        (tasks[k].processed_at # "None") <=> (tasks[k].status = "completed")

C26_Witness ==
    /\ Len(tasks) = 2
    /\ tasks[1].status = "failed"
    /\ tasks[1].processed_at = "None"
    /\ tasks[2].status = "completed"
    /\ tasks[2].processed_at = "now"

RunTasksWith(status) ==
    {n \in 1..Len(run.queue) : tasks[run.queue[n]].status = status}

\* C27: when execute_all_tasks has finished, its success tally is the number of
\* tasks of the run that ended completed, its failure tally the number that ended
\* failed, and the two add up to the number of tasks run.
C27_TalliesMatchOutcomes ==
    (run.kind = "all" /\ run.state = "menu") =>
        /\ run.success_count = Cardinality(RunTasksWith("completed"))
        /\ run.failed_count = Cardinality(RunTasksWith("failed"))
        /\ run.success_count + run.failed_count = Len(run.queue)

\* C24: in execute_all_tasks exactly one 30-second cooldown lies between every
\* two consecutive tasks, also after a failed task, and none follows the last.
C24_OneCooldownBetweenJobs ==
    run.kind = "all" =>
        run.cooldowns = (CASE run.state = "running" -> run.i - 1
                           [] run.state = "cooldown" -> run.i
                           [] OTHER -> Len(run.queue) - 1)

C24_Witness ==
    /\ run.kind = "all"
    /\ run.state = "menu"
    /\ Len(run.queue) = 2
    /\ tasks[run.queue[1]].status = "failed"
    /\ tasks[run.queue[2]].status = "completed"
    /\ run.cooldowns = 1

DelaysOf(window) ==
    Cardinality({n \in 1..Len(job.delays) : job.delays[n].window = window})
PhasesDecided == InJob /\ job.pc \in {"views", "return"}

\* C22 (as claimed): the 5..15 s delay is inserted exactly when a likes phase ran
\* and the retweets target is nonzero, the 3..10 s delay exactly when an earlier
\* phase ran and the views target is nonzero, and no delay is inserted ahead of
\* a phase whose target is zero.
C22_DelayBeforeNonzeroPhase ==
    PhasesDecided =>
        /\ DelaysOf(<<5, 15>>) =
              (IF job.likes_count > 0 /\ job.retweets_count > 0 THEN 1 ELSE 0)
        /\ DelaysOf(<<3, 10>>) =
              (IF (job.likes_count > 0 \/ job.retweets_count > 0)
                     /\ job.views_count > 0 THEN 1 ELSE 0)

\* C22 (amended): the 5..15 s delay is inserted exactly when the likes target is
\* nonzero and the retweets or the views target is nonzero, the 3..10 s delay
\* exactly when the retweets and the views targets are both nonzero; no delay is
\* inserted when no later phase has a nonzero target.
C22_DelayAfterPhaseRan ==
    PhasesDecided =>
        /\ DelaysOf(<<5, 15>>) =
              (IF job.likes_count > 0
                     /\ (job.retweets_count > 0 \/ job.views_count > 0)
               THEN 1 ELSE 0)
        /\ DelaysOf(<<3, 10>>) =
              (IF job.retweets_count > 0 /\ job.views_count > 0 THEN 1 ELSE 0)
        /\ Len(job.delays) = DelaysOf(<<5, 15>>) + DelaysOf(<<3, 10>>)
        /\ (job.retweets_count = 0 /\ job.views_count = 0) => job.delays = <<>>

C22_Witness ==
    /\ job.pc = "return"
    /\ job.likes_count > 0
    /\ job.retweets_count = 0
    /\ job.views_count > 0
    /\ job.delays = <<[after |-> "likes", window |-> <<5, 15>>]>>

PhaseWindow(ph) ==
    CASE ph = "likes" -> <<2, 8>> [] ph = "retweets" -> <<3, 12>> [] OTHER -> <<1, 5>>

\* C23: in each phase the action at index 0 is invoked without a jitter sleep and
\* every other action after exactly one sleep drawn from the phase's window
\* (likes 2..8, retweets 3..12, views 1..5 seconds); a task that holds a slot can
\* go on to its call whatever the other tasks are doing.
C23_JitterPerAction ==
    \A x \in LiveSlots :
        /\ Slot(x).pc = "wait" => Slot(x).sleeps = 0
        /\ (Slot(x).pc # "wait" /\ x[2] = 1) =>
              Slot(x).sleeps = 0 /\ Slot(x).jitter = <<0, 0>>
        /\ (Slot(x).pc # "wait" /\ x[2] > 1) =>
              Slot(x).sleeps = 1 /\ Slot(x).jitter = PhaseWindow(x[1])
        /\ Slot(x).pc = "acquired" =>
              ENABLED (\/ invoke(x[1], x[2], Slot(x).acct)
                       \/ (x[1] = "views" /\ invoke_view(x[2])))

C23_Witness ==
    \E ph \in PhaseSet :
        /\ Len(slots[ph]) >= 3
        /\ slots[ph][2].pc = "acquired"
        /\ slots[ph][2].sleeps = 1
        /\ slots[ph][3].pc = "done"
        /\ slots[ph][3].sleeps = 1

C25_OneActiveList ==
    InJob =>
        /\ Range(job.likes_accounts) \cup Range(job.retweet_accounts)
              \cup Range(job.view_accounts) \subseteq Range(job.shuffled)
        /\ job.total_accounts # 0 => job.total_accounts = Len(job.shuffled)

Usernames == {pool[i].username : i \in 1..Len(pool)}
WithoutProxy(px) == {u \in Usernames : get_proxy(px, u) = NoProxy}

\* C30: automatic proxy distribution never changes the proxy of an account that
\* already has one, gives each entry of the proxy list to at most one account,
\* and assigns to exactly min(accounts without a proxy, proxies) accounts.
C30_DistributionFrame ==
    [][(\E confirm \in {"y"} : auto_assign_proxies(confirm)) =>
          LET assigned == WithoutProxy(proxies) \ WithoutProxy(proxies') IN
          /\ \A u \in Usernames \ WithoutProxy(proxies) :
                get_proxy(proxies', u) = get_proxy(proxies, u)
          /\ Cardinality(assigned) =
                Min(Cardinality(WithoutProxy(proxies)), Len(my_proxies))
          /\ \E entry \in [assigned -> 1..Len(my_proxies)] :
                /\ \A u, v \in assigned : entry[u] = entry[v] => u = v
                /\ \A u \in assigned : proxies'[u] = my_proxies[entry[u]]]_vars

\* a distribution has given the only line of the file to one account, has left a
\* second account without a proxy and a third with the proxy it had
C30_Witness ==
    /\ Len(my_proxies) = 1
    /\ \E u, v, w \in Usernames :
          /\ get_proxy(account_proxies, u) = NoProxy
          /\ get_proxy(proxies, u) = my_proxies[1]
          /\ get_proxy(account_proxies, v) = NoProxy
          /\ get_proxy(proxies, v) = NoProxy
          /\ get_proxy(account_proxies, w) # NoProxy
          /\ get_proxy(proxies, w) = get_proxy(account_proxies, w)

Configured(name) == name \in DOMAIN bot.env

\* C29: is_authorized returns true when the chat id is in the allowed groups or the
\* user id is in the allowed users, returns true for every user and chat when
\* neither ALLOWED_GROUPS nor ALLOWED_USERS is configured, and false otherwise.
C29_Authorization ==
    (bot.config # None /\ bot.last # None) =>
        bot.last.authorized =
            \/ str(bot.last.chat_id) \in Range(bot.config.allowed_groups)
            \/ str(bot.last.user_id) \in Range(bot.config.allowed_users)
            \/ ~Configured("ALLOWED_GROUPS") /\ ~Configured("ALLOWED_USERS")

====
